---- MODULE Spec2Model ----
(***************************************************************************)
(* A model of pudl's ETL settings validation (src/pudl/settings.py) and of *)
(* the alembic migration 994e1c2027c0 that adds two metadata columns to    *)
(* the electric operating revenues tables.                                 *)
(*                                                                         *)
(* Settings classes are pydantic (v1) models; constructing one runs the    *)
(* field validators of the supplied fields in declaration order, then the  *)
(* root validators.  A construction is one step of the model.              *)
(***************************************************************************)
EXTENDS Integers, Sequences, FiniteSets, TLC

VARIABLES
    cls,        \* the settings class being constructed
    kwargs,     \* the keyword arguments of the constructor call
    pc,         \* "call" before the constructor ran, "done" after
    result,     \* the outcome of the constructor: a record or the errors
    attempt,    \* the last attribute assignment tried on the record
    denorm_cols,     \* columns of denorm_electric_operating_revenues_ferc1
    eor_cols,        \* columns of electric_operating_revenues_ferc1
    start_cols,      \* the two column sets before the migration ran
    revision,        \* the revision the database is stamped with
    mig_log          \* the migration commands run so far, with their outcome

vars == <<cls, kwargs, pc, result, attempt,
          denorm_cols, eor_cols, start_cols, revision, mig_log>>

settings_vars == <<cls, kwargs, pc, result, attempt>>
migration_vars == <<denorm_cols, eor_cols, start_cols, revision, mig_log>>

(***************************************************************************)
(* Bounds of the model.                                                    *)
(***************************************************************************)
\* longest requested list of a dataset-settings constructor
MaxLen == 2
\* longest requested years list inside a nested (EiaSettings,
\* DatasetsSettings) request
MaxSubLen == 1

(***************************************************************************)
(* Python values.                                                          *)
(***************************************************************************)
\* Optional values: None is the empty tuple, a present value is wrapped.
NoneV == <<>>
Some(x) == <<x>>

\* A dict with no keys (also: a call with no keyword arguments).
EmptyDict == <<>>

\* dict.update: the keys of g override those of f.
Merge(f, g) ==
    [k \in (DOMAIN f) \cup (DOMAIN g) |-> IF k \in DOMAIN g THEN g[k] ELSE f[k]]

\* The dict holding the one key k.
Single(k, v) == [x \in {k} |-> v]

\* The dict d without the key k.
Without(d, k) == [x \in (DOMAIN d) \ {k} |-> d[x]]

Range(s) == {s[i] : i \in DOMAIN s}

\* The strings of the model in Python's (code point) order.
StrOrder == <<
    "AL", "CO", "TX", "ZZ", "all",
    "boiler_fuel_eia923", "boiler_generator_assn_eia860", "coalmine_eia923",
    "f1_fuel", "f1_respondent_id", "f1_steam",
    "fuel_ferc1", "fuel_receipts_costs_eia923",
    "generation_eia923", "generation_fuel_eia923", "generators_eia860",
    "not_a_table", "ownership_eia860",
    "plant_in_service_ferc1", "plants_eia860", "plants_hydro_ferc1",
    "plants_pumped_storage_ferc1", "plants_small_ferc1", "plants_steam_ferc1",
    "purchased_power_ferc1", "utilities_eia860" >>

StrRank(s) == CHOOSE i \in DOMAIN StrOrder : StrOrder[i] = s

\* The sort key of a value of partition `name`: years are ints, tables and
\* states are strings.
Key(name, v) == IF name = "years" THEN v ELSE StrRank(v)

\* Python's sorted() over a set of values of partition `name`.
RECURSIVE Sorted(_, _)
Sorted(name, S) ==
    IF S = {} THEN <<>>
    ELSE LET m == CHOOSE x \in S : \A y \in S : Key(name, x) <= Key(name, y)
         IN  <<m>> \o Sorted(name, S \ {m})

\* list(range(a, b + 1))
RangeList(a, b) == [i \in 1..(b - a + 1) |-> a + i - 1]

(***************************************************************************)
(* pudl.constants.WORKING_PARTITIONS, pudl.metadata.enums.EPACEMS_STATES   *)
(* and pudl.extract.ferc1.DBF_TABLES_FILENAMES.                            *)
(***************************************************************************)
Ferc1Years == RangeList(1994, 2019)
Eia860Years == RangeList(2004, 2019)
Eia923Years == RangeList(2001, 2019)
EpaCemsYears == RangeList(1995, 2020)
EPACEMS_STATES == <<"CO", "AL", "TX", "AL">>
DBF_TABLES_FILENAMES == {"f1_steam", "f1_fuel", "f1_respondent_id"}

(***************************************************************************)
(* The dataset-settings classes.                                           *)
(***************************************************************************)
Ferc1WorkingPartitions ==
    [tables |-> Sorted("tables", {"fuel_ferc1", "plants_steam_ferc1",
                   "plants_small_ferc1", "plants_hydro_ferc1",
                   "plants_pumped_storage_ferc1", "purchased_power_ferc1",
                   "plant_in_service_ferc1"}),
     years |-> Ferc1Years]

Eia860WorkingPartitions ==
    [tables |-> Sorted("tables", {"boiler_generator_assn_eia860",
                   "utilities_eia860", "plants_eia860", "generators_eia860",
                   "ownership_eia860"}),
     years |-> Eia860Years]

Eia923WorkingPartitions ==
    [tables |-> Sorted("tables", {"generation_fuel_eia923",
                   "boiler_fuel_eia923", "generation_eia923",
                   "coalmine_eia923", "fuel_receipts_costs_eia923"}),
     years |-> Eia923Years]

EpaCemsWorkingPartitions ==
    [states |-> Sorted("states", Range(EPACEMS_STATES)),
     years |-> EpaCemsYears]

Ferc1ToSqliteWorkingPartitions ==
    [tables |-> Sorted("tables", DBF_TABLES_FILENAMES),
     years |-> Ferc1Years]

LeafClasses == {"Ferc1Settings", "Eia860Settings", "Eia923Settings",
                "EpaCemsSettings", "Ferc1ToSqliteSettings"}

\* cls.working_partitions
WorkingPartitions(c) ==
    CASE c = "Ferc1Settings" -> Ferc1WorkingPartitions
      [] c = "Eia860Settings" -> Eia860WorkingPartitions
      [] c = "Eia923Settings" -> Eia923WorkingPartitions
      [] c = "EpaCemsSettings" -> EpaCemsWorkingPartitions
      [] c = "Ferc1ToSqliteSettings" -> Ferc1ToSqliteWorkingPartitions

\* The keys of cls.working_partitions in the order the dict literal gives
\* them, which is the order .items() walks them.
PartitionNames(c) ==
    IF c = "EpaCemsSettings" THEN <<"states", "years">>
    ELSE <<"tables", "years">>

\* The year part of Eia860Settings.eia860m_date ('2020-11').
Eia860mDateYear == 2020

\* max() of a list of ints
Max(s) == CHOOSE x \in Range(s) : \A y \in Range(s) : y <= x

\* The declared fields of a class with their default values.
Defaults(c) ==
    CASE c = "Ferc1Settings" ->
            [years |-> Ferc1WorkingPartitions.years,
             tables |-> Ferc1WorkingPartitions.tables]
      [] c = "Eia860Settings" ->
            [years |-> Eia860WorkingPartitions.years,
             tables |-> Eia860WorkingPartitions.tables,
             eia860m |-> FALSE]
      [] c = "Eia923Settings" ->
            [years |-> Eia923WorkingPartitions.years,
             tables |-> Eia923WorkingPartitions.tables]
      [] c = "EpaCemsSettings" ->
            [years |-> EpaCemsWorkingPartitions.years,
             states |-> EpaCemsWorkingPartitions.states]
      [] c = "Ferc1ToSqliteSettings" ->
            [years |-> Ferc1ToSqliteWorkingPartitions.years,
             tables |-> Ferc1ToSqliteWorkingPartitions.tables,
             refyear |-> Max(Ferc1ToSqliteWorkingPartitions.years),
             bad_cols |-> <<>>]
      [] c = "GlueSettings" -> [eia |-> TRUE, ferc1 |-> TRUE]
      [] c = "EiaSettings" -> [eia860 |-> NoneV, eia923 |-> NoneV]
      [] c = "DatasetsSettings" ->
            [ferc1 |-> NoneV, eia |-> NoneV, glue |-> NoneV, epacems |-> NoneV]

(***************************************************************************)
(* Validation errors.  An error carries what its message says: the field   *)
(* it names, the offending values it lists and, when the message lists     *)
(* them, the allowed values.                                               *)
(***************************************************************************)
Error(loc, field, bad, allowed) ==
    [loc |-> loc, field |-> field, bad |-> bad, allowed |-> allowed]

\* The outcome of a constructor call.
Ok(rec) == [ok |-> TRUE, rec |-> Some(rec), errors |-> <<>>]
Failed(errors) == [ok |-> FALSE, rec |-> NoneV, errors |-> errors]

(***************************************************************************)
(* Validators work on [values, errors]: the values validated so far and    *)
(* the errors recorded so far.                                             *)
(***************************************************************************)
Validated(values) == [values |-> values, errors |-> <<>>]

\* partition_turn without the availability check: every requested value is
\* kept.
partition_turn_unchecked(c, acc, i) ==
    IF acc.errors # <<>> THEN acc
    ELSE [acc EXCEPT !.values[PartitionNames(c)[i]] =
             Sorted(PartitionNames(c)[i], Range(@))]

\* partition_turn dropping the values that are not available instead of
\* raising.
partition_turn_filtering(c, acc, i) ==
    IF acc.errors # <<>> THEN acc
    ELSE [acc EXCEPT !.values[PartitionNames(c)[i]] =
             Sorted(PartitionNames(c)[i],
                    Range(@) \cap Range(WorkingPartitions(c)[PartitionNames(c)[i]]))]

\* partition_turn without sorted(set(...)): the list stays as requested.
partition_turn_unsorted(c, acc, i) ==
    IF acc.errors # <<>> THEN acc
    ELSE IF Cardinality(Range(acc.values[PartitionNames(c)[i]])
                \ Range(WorkingPartitions(c)[PartitionNames(c)[i]])) > 0
    THEN [acc EXCEPT !.errors =
             <<Error("__root__", PartitionNames(c)[i],
                     Range(acc.values[PartitionNames(c)[i]])
                         \ Range(WorkingPartitions(c)[PartitionNames(c)[i]]),
                     NoneV)>>]
    ELSE acc

\* One turn of the loop of GenericDatasetSettings.validate_partitions, for
\* the i-th partition of the class: it raises when the partition is missing
\* or holds values that are not working, and normalises it otherwise.  The
\* turns after the one that raised do not run.
partition_turn(c, acc, i) ==
    IF acc.errors # <<>> THEN acc
    ELSE IF PartitionNames(c)[i] \notin DOMAIN acc.values
    THEN [acc EXCEPT !.errors = <<Error("__root__", PartitionNames(c)[i], {}, NoneV)>>]
    ELSE IF Cardinality(Range(acc.values[PartitionNames(c)[i]])
                \ Range(WorkingPartitions(c)[PartitionNames(c)[i]])) > 0
    THEN [acc EXCEPT !.errors =
             <<Error("__root__", PartitionNames(c)[i],
                     Range(acc.values[PartitionNames(c)[i]])
                         \ Range(WorkingPartitions(c)[PartitionNames(c)[i]]),
                     NoneV)>>]
    ELSE [acc EXCEPT !.values[PartitionNames(c)[i]] =
             Sorted(PartitionNames(c)[i], Range(@))]

\* GenericDatasetSettings.validate_partitions: every class has two
\* partitions.
validate_partitions(c, partitions) ==
    partition_turn(c, partition_turn(c, Validated(partitions), 1), 2)

\* allow_all_keyword without the keyword.
allow_all_keyword_ignored(states) == states

\* EpaCemsSettings.allow_all_keyword
allow_all_keyword(states) ==
    IF states = <<"all">> THEN EpaCemsWorkingPartitions.states ELSE states

\* Eia860Settings.check_860m_date: TRUE when the validator raises.
check_860m_date_raises(eia860m) ==
    eia860m /\ Eia860mDateYear # Max(Eia860WorkingPartitions.years) + 1

\* Ferc1ToSqliteSettings.check_reference_year: TRUE when the validator raises.
check_reference_year_raises(refyear) ==
    refyear \notin Range(Ferc1ToSqliteWorkingPartitions.years)

\* The field validators of a dataset-settings class, run on the supplied
\* fields only (`given` is the defaults overridden by the keyword
\* arguments); a field whose validator raised is left out of the values.
FieldValidators(c, kw, given) ==
    CASE c = "EpaCemsSettings" /\ "states" \in DOMAIN kw ->
            Validated([given EXCEPT !.states = allow_all_keyword(kw.states)])
      [] c = "Eia860Settings" /\ "eia860m" \in DOMAIN kw ->
            IF check_860m_date_raises(kw.eia860m)
            THEN [values |-> Without(given, "eia860m"),
                  errors |-> <<Error("eia860m", "eia860m", {Eia860mDateYear},
                                     Some(Range(Eia860WorkingPartitions.years)))>>]
            ELSE Validated(given)
      [] c = "Ferc1ToSqliteSettings" /\ "refyear" \in DOMAIN kw ->
            IF check_reference_year_raises(kw.refyear)
            THEN [values |-> Without(given, "refyear"),
                  errors |-> <<Error("refyear", "refyear", {kw.refyear},
                                     Some(Range(Ferc1ToSqliteWorkingPartitions.years)))>>]
            ELSE Validated(given)
      [] OTHER -> Validated(given)

\* What a constructor returns or raises, from the errors of the field
\* validators and the outcome of the root validator.
Outcome(field_errors, rv) ==
    IF field_errors \o rv.errors = <<>> THEN Ok(rv.values)
    ELSE Failed(field_errors \o rv.errors)

\* The root validator of a dataset-settings class, which also runs when a
\* field validator raised.
LeafRootValidation(c, fv) == Outcome(fv.errors, validate_partitions(c, fv.values))

\* Constructing a dataset-settings class from keyword arguments: the field
\* validators, then the root validator; the call raises when either
\* recorded an error.
ConstructLeaf(c, kw) ==
    LeafRootValidation(c, FieldValidators(c, kw, Merge(Defaults(c), kw)))

(***************************************************************************)
(* Nested settings.  A value supplied for a model-typed field is None, a   *)
(* dict of keyword arguments, or an instance of the model.                 *)
(***************************************************************************)
PyNone == [tag |-> "None"]
PyDict(kw) == [tag |-> "dict", v |-> kw]
PyModel(rec) == [tag |-> "model", v |-> rec]

\* bool(value) of a supplied value: None and the empty dict are falsy, a
\* model instance never is.
Truthy(value) ==
    CASE value.tag = "None" -> FALSE
      [] value.tag = "dict" -> value.v # EmptyDict
      [] value.tag = "model" -> TRUE

\* GlueSettings(**kw): two booleans, no validators.
ConstructGlue(kw) == Ok(Merge(Defaults("GlueSettings"), kw))

\* The outcome r of a nested constructor as the outcome of validating the
\* field: the field's value is the record r holds.
AsField(r) == IF r.ok THEN Ok(r.rec) ELSE r

\* pydantic's validation of a value supplied for a field whose type is a
\* dataset-settings class or GlueSettings: None stays None, an instance is
\* taken as it is, a dict is passed to the constructor.
ValidateModelField(c, value) ==
    CASE value.tag = "None" -> Ok(NoneV)
      [] value.tag = "model" -> Ok(Some(value.v))
      [] value.tag = "dict" ->
            AsField(IF c = "GlueSettings" THEN ConstructGlue(value.v)
                    ELSE ConstructLeaf(c, value.v))

\* The validated fields so far, with field `name` added: its default (None)
\* when it is not among the keyword arguments, its validated value r.rec[1]
\* when validation went through, and otherwise no value but r's errors.
AddField(acc, kw, name, r) ==
    IF name \notin DOMAIN kw
    THEN [acc EXCEPT !.values = Merge(@, Single(name, NoneV))]
    ELSE IF r.ok
         THEN [acc EXCEPT !.values = Merge(@, Single(name, r.rec[1]))]
         ELSE [acc EXCEPT !.errors = @ \o r.errors]

\* dict.get(key): None when the key is missing.
Get(values, key) == IF key \in DOMAIN values THEN values[key] ELSE NoneV

\* values[name] = <the settings a constructor made>, inside a root
\* validator: when the constructor raised (r), so does the validator.
Assign(acc, name, r) ==
    IF r.ok THEN [acc EXCEPT !.values = Merge(@, Single(name, r.rec))]
    ELSE [acc EXCEPT !.errors = r.errors]

\* The first `if` with eia923 left at its defaults.
eia860_requires_eia923_defaults(acc, eia923, eia860) ==
    IF eia923 = NoneV /\ eia860 # NoneV
    THEN Assign(acc, "eia923", ConstructLeaf("Eia923Settings", EmptyDict))
    ELSE acc

\* The first `if` of EiaSettings.check_eia_dependencies.
eia860_requires_eia923(acc, eia923, eia860) ==
    IF eia923 = NoneV /\ eia860 # NoneV
    THEN Assign(acc, "eia923",
                ConstructLeaf("Eia923Settings",
                    [tables |-> <<"boiler_fuel_eia923", "generation_eia923">>,
                     years |-> eia860[1].years]))
    ELSE acc

\* The second `if` left out.
eia923_requires_eia860_skipped(acc, eia923, eia860) == acc

\* The second `if` of EiaSettings.check_eia_dependencies, not reached when
\* the first raised.
eia923_requires_eia860(acc, eia923, eia860) ==
    IF acc.errors # <<>> THEN acc
    ELSE IF eia923 # NoneV /\ eia860 = NoneV
    THEN Assign(acc, "eia860",
                ConstructLeaf("Eia860Settings", [years |-> eia923[1].years]))
    ELSE acc

\* EiaSettings.check_eia_dependencies
check_eia_dependencies(values) ==
    eia923_requires_eia860(
        eia860_requires_eia923(Validated(values),
                               Get(values, "eia923"), Get(values, "eia860")),
        Get(values, "eia923"), Get(values, "eia860"))

\* The root validator of EiaSettings, which also runs when a field failed.
EiaRootValidation(fv) == Outcome(fv.errors, check_eia_dependencies(fv.values))

\* EiaSettings(**kw)
ConstructEia(kw) ==
    EiaRootValidation(
        AddField(AddField(Validated(EmptyDict), kw, "eia860",
                          ValidateModelField("Eia860Settings", kw.eia860)),
                 kw, "eia923",
                 ValidateModelField("Eia923Settings", kw.eia923)))

\* pydantic's validation of a value supplied for a field of type EiaSettings.
ValidateEiaField(value) ==
    CASE value.tag = "None" -> Ok(NoneV)
      [] value.tag = "model" -> Ok(Some(value.v))
      [] value.tag = "dict" -> AsField(ConstructEia(value.v))

\* DatasetsSettings.default_load_all, on the keyword arguments as given.
default_load_all(values) ==
    IF ~ \E k \in DOMAIN values : Truthy(values[k])
    THEN Merge(values,
               [ferc1 |-> PyModel(ConstructLeaf("Ferc1Settings", EmptyDict).rec[1]),
                eia |-> PyModel(ConstructEia(EmptyDict).rec[1])])
    ELSE values

\* add_glue_settings adding nothing.
add_glue_settings_skipped(values) == values

\* DatasetsSettings.add_glue_settings
add_glue_settings(values) ==
    IF Get(values, "ferc1") # NoneV /\ Get(values, "eia") # NoneV
    THEN Merge(values, Single("glue", ConstructGlue(EmptyDict).rec))
    ELSE values

\* The fields of DatasetsSettings validated in declaration order, from the
\* values the pre root validator returned.
DatasetsFields(pre) ==
    AddField(
        AddField(
            AddField(
                AddField(Validated(EmptyDict), pre, "ferc1",
                         ValidateModelField("Ferc1Settings", pre.ferc1)),
                pre, "eia", ValidateEiaField(pre.eia)),
            pre, "glue", ValidateModelField("GlueSettings", pre.glue)),
        pre, "epacems", ValidateModelField("EpaCemsSettings", pre.epacems))

\* The root validator of DatasetsSettings, which cannot raise.
DatasetsRootValidation(fv) == Outcome(fv.errors, Validated(add_glue_settings(fv.values)))

\* DatasetsSettings(**kw)
ConstructDatasets(kw) == DatasetsRootValidation(DatasetsFields(default_load_all(kw)))

(***************************************************************************)
(* BaseModel.Config and what pydantic's __setattr__ does under it.         *)
(***************************************************************************)
Config == [allow_mutation |-> FALSE, extra |-> "forbid"]

\* The class of a model-typed field.
FieldClass(name) ==
    CASE name = "ferc1" -> "Ferc1Settings"
      [] name = "eia" -> "EiaSettings"
      [] name = "glue" -> "GlueSettings"
      [] name = "epacems" -> "EpaCemsSettings"
      [] name = "eia860" -> "Eia860Settings"
      [] name = "eia923" -> "Eia923Settings"

\* A value of the field's type that differs from the one the record holds.
OtherValue(c, rec, name) ==
    CASE name \in {"years", "tables", "states"} ->
            IF rec[name] = <<>> THEN Defaults(c)[name] ELSE <<>>
      [] name = "eia860m" -> ~ rec[name]
      [] name = "refyear" -> rec[name] - 1
      [] name = "bad_cols" -> rec[name] \o <<"respondent_id">>
      [] name = "undeclared" -> TRUE
      [] OTHER ->
            IF rec[name] = NoneV THEN Some(Defaults(FieldClass(name))) ELSE NoneV

\* __setattr__ with allow_mutation left at pydantic's default (True).
setattr_mutable(c, rec, name, value) ==
    IF Config.extra # "allow" /\ name \notin DOMAIN Defaults(c)
    THEN [rec |-> rec, raised |-> "ValueError"]
    ELSE [rec |-> Merge(rec, Single(name, value)), raised |-> "none"]

\* model.<name> = value on an instance of class c: the record afterwards and
\* the exception raised ("none" when the assignment went through).
setattr(c, rec, name, value) ==
    IF Config.extra # "allow" /\ name \notin DOMAIN Defaults(c)
    THEN [rec |-> rec, raised |-> "ValueError"]
    ELSE IF ~ Config.allow_mutation
         THEN [rec |-> rec, raised |-> "TypeError"]
         ELSE [rec |-> Merge(rec, Single(name, value)), raised |-> "none"]

(***************************************************************************)
(* The constructor calls the model explores.                               *)
(***************************************************************************)
SeqsUpTo(S, n) == UNION {[1..k -> S] : k \in 0..n}

\* Either the key is not passed or it is passed with one of the values.
Opt(name, V) == {EmptyDict} \cup {Single(name, v) : v \in V}

\* Years requested of a class: for each class two working years and one
\* that is not (2002 is a working year of all but eia860, 2020 of epacems
\* alone).
YearSamples(c) ==
    CASE c = "Eia860Settings" -> {2002, 2004, 2019}
      [] c = "Eia923Settings" -> {1993, 2002, 2019}
      [] c = "EpaCemsSettings" -> {1993, 2002, 2020}
      [] OTHER -> {2002, 2019, 2020}

TableSamples(c) ==
    CASE c = "Ferc1Settings" -> {"plants_steam_ferc1", "fuel_ferc1", "not_a_table"}
      [] c = "Eia860Settings" -> {"plants_eia860", "generators_eia860", "not_a_table"}
      [] c = "Eia923Settings" -> {"coalmine_eia923", "boiler_fuel_eia923", "not_a_table"}
      [] c = "Ferc1ToSqliteSettings" -> {"f1_steam", "f1_fuel", "not_a_table"}

StateSamples == {"CO", "AL", "all", "ZZ"}

OtherArgs(c) ==
    CASE c = "Eia860Settings" -> Opt("eia860m", BOOLEAN)
      [] c = "Ferc1ToSqliteSettings" -> Opt("refyear", {2019, 2020})
      [] OTHER -> {EmptyDict}

LeafKwargs(c) ==
    {Merge(Merge(y, t), o) :
        y \in Opt("years", SeqsUpTo(YearSamples(c), MaxLen)),
        t \in IF c = "EpaCemsSettings"
              THEN Opt("states", SeqsUpTo(StateSamples, MaxLen))
              ELSE Opt("tables", SeqsUpTo(TableSamples(c), MaxLen)),
        o \in OtherArgs(c)}

\* Requests for a dataset inside an EiaSettings request.
SubYearSamples == {1993, 2002, 2019}

SubKwargs(c) ==
    {Merge(y, t) :
        y \in Opt("years", SeqsUpTo(SubYearSamples, MaxSubLen)),
        t \in Opt("tables", {IF c = "Eia860Settings" THEN <<"plants_eia860">>
                              ELSE <<"coalmine_eia923">>})}

\* Either the key is not passed, or it is passed as None or as a dict.
OptModel(name, K) == Opt(name, {PyNone} \cup {PyDict(kw) : kw \in K})

EiaKwargs ==
    {Merge(a, b) : a \in OptModel("eia860", SubKwargs("Eia860Settings")),
                   b \in OptModel("eia923", SubKwargs("Eia923Settings"))}

\* Requests for a dataset inside a DatasetsSettings request.
DsYearSamples == {1993, 2019}

DsKwargs == Opt("years", SeqsUpTo(DsYearSamples, MaxSubLen))

DatasetsKwargs ==
    {Merge(Merge(f, e), Merge(g, x)) :
        f \in OptModel("ferc1", DsKwargs),
        e \in OptModel("eia",
                 {Merge(a, b) : a \in Opt("eia860", {PyDict(kw) : kw \in DsKwargs}),
                                b \in Opt("eia923", {PyDict(EmptyDict)})}),
        g \in Opt("glue", {PyDict([eia |-> FALSE]),
                           PyDict([eia |-> FALSE, ferc1 |-> FALSE])}),
        x \in OptModel("epacems", {EmptyDict, [years |-> <<1993>>]})}

(***************************************************************************)
(* The settings state machine: a constructor call is drawn, the            *)
(* constructor runs, and the record it made may then be assigned to.       *)
(***************************************************************************)
NoMigration ==
    /\ denorm_cols = {}
    /\ eor_cols = {}
    /\ start_cols = [denorm |-> {}, eor |-> {}]
    /\ revision = "none"
    /\ mig_log = <<>>

Init ==
    /\ \/ cls \in LeafClasses /\ kwargs \in LeafKwargs(cls)
       \/ cls = "EiaSettings" /\ kwargs \in EiaKwargs
       \/ cls = "DatasetsSettings" /\ kwargs \in DatasetsKwargs
    /\ pc = "call"
    /\ result = Failed(<<>>)
    /\ attempt = "none"
    /\ NoMigration

\* <Class>(**kwargs) for one of the five dataset-settings classes
NewDatasetSettings ==
    /\ pc = "call"
    /\ cls \in LeafClasses
    /\ result' = ConstructLeaf(cls, kwargs)
    /\ pc' = "done"
    /\ UNCHANGED <<cls, kwargs, attempt>>
    /\ UNCHANGED migration_vars

\* EiaSettings(**kwargs)
NewEiaSettings ==
    /\ pc = "call"
    /\ cls = "EiaSettings"
    /\ result' = ConstructEia(kwargs)
    /\ pc' = "done"
    /\ UNCHANGED <<cls, kwargs, attempt>>
    /\ UNCHANGED migration_vars

\* DatasetsSettings(**kwargs)
NewDatasetsSettings ==
    /\ pc = "call"
    /\ cls = "DatasetsSettings"
    /\ result' = ConstructDatasets(kwargs)
    /\ pc' = "done"
    /\ UNCHANGED <<cls, kwargs, attempt>>
    /\ UNCHANGED migration_vars

\* The state after an assignment was tried with outcome r.
Assigned(r) ==
    /\ result' = [result EXCEPT !.rec = Some(r.rec)]
    /\ attempt' = r.raised

\* record.<name> = value, for a declared or an undeclared name
SetAttr ==
    /\ pc = "done"
    /\ result.ok
    /\ \E name \in (DOMAIN Defaults(cls)) \cup {"undeclared"} :
          Assigned(setattr(cls, result.rec[1], name,
                           OtherValue(cls, result.rec[1], name)))
    /\ UNCHANGED <<cls, kwargs, pc>>
    /\ UNCHANGED migration_vars

Next ==
    \/ NewDatasetSettings
    \/ NewEiaSettings
    \/ NewDatasetsSettings
    \/ SetAttr

Spec == Init /\ [][Next]_vars

(***************************************************************************)
(* The migration 994e1c2027c0.  The database is the column sets of the two *)
(* tables and whether an operation raised; an operation that raises ends   *)
(* the command, and what the earlier operations did stays done.            *)
(***************************************************************************)
\* most migration commands run on one database
MaxMigrations == 2

down_revision == "29d443aadf25"
this_revision == "994e1c2027c0"

Database(denorm, eor) ==
    [denorm_electric_operating_revenues_ferc1 |-> denorm,
     electric_operating_revenues_ferc1 |-> eor,
     raised |-> FALSE]

\* batch_op.add_column(sa.Column(name, ...)) on `table`: the database raises
\* on a column the table already has.
add_column(db, table, name) ==
    IF db.raised THEN db
    ELSE IF name \in db[table] THEN [db EXCEPT !.raised = TRUE]
    ELSE [db EXCEPT ![table] = @ \cup {name}]

\* batch_op.drop_column(name) on `table`: raises on a column the table does
\* not have.
drop_column(db, table, name) ==
    IF db.raised THEN db
    ELSE IF name \notin db[table] THEN [db EXCEPT !.raised = TRUE]
    ELSE [db EXCEPT ![table] = @ \ {name}]

upgrade(db) ==
    add_column(
        add_column(
            add_column(
                add_column(db, "denorm_electric_operating_revenues_ferc1",
                           "ferc_account"),
                "denorm_electric_operating_revenues_ferc1", "row_type_xbrl"),
            "electric_operating_revenues_ferc1", "ferc_account"),
        "electric_operating_revenues_ferc1", "row_type_xbrl")

\* downgrade leaving row_type_xbrl in the denormalized table.
downgrade_partial(db) ==
    drop_column(
        drop_column(
            drop_column(db, "electric_operating_revenues_ferc1",
                        "row_type_xbrl"),
            "electric_operating_revenues_ferc1", "ferc_account"),
        "denorm_electric_operating_revenues_ferc1", "ferc_account")

downgrade(db) ==
    drop_column(
        drop_column(
            drop_column(
                drop_column(db, "electric_operating_revenues_ferc1",
                            "row_type_xbrl"),
                "electric_operating_revenues_ferc1", "ferc_account"),
            "denorm_electric_operating_revenues_ferc1", "row_type_xbrl"),
        "denorm_electric_operating_revenues_ferc1", "ferc_account")

\* Columns the two tables may hold before the migration.
ColumnSamples == {"utility_id_ferc1", "report_year", "dollar_value",
                  "ferc_account", "row_type_xbrl"}

NoSettings ==
    /\ cls = "none"
    /\ kwargs = EmptyDict
    /\ pc = "idle"
    /\ result = Failed(<<>>)
    /\ attempt = "none"

MigrationInit ==
    /\ denorm_cols \in SUBSET ColumnSamples
    /\ eor_cols \in SUBSET ColumnSamples
    /\ start_cols = [denorm |-> denorm_cols, eor |-> eor_cols]
    /\ revision = down_revision
    /\ mig_log = <<>>
    /\ NoSettings

\* The state after command cmd left the database as db: the runner stamps
\* the target revision only when the command did not raise.
Migrated(cmd, db, target) ==
    /\ denorm_cols' = db.denorm_electric_operating_revenues_ferc1
    /\ eor_cols' = db.electric_operating_revenues_ferc1
    /\ revision' = IF db.raised THEN revision ELSE target
    /\ mig_log' = Append(mig_log, [cmd |-> cmd, raised |-> db.raised])
    /\ UNCHANGED start_cols
    /\ UNCHANGED settings_vars

\* alembic upgrade, from the revision before this one
Upgrade ==
    /\ revision = down_revision
    /\ Len(mig_log) < MaxMigrations
    /\ Migrated("upgrade", upgrade(Database(denorm_cols, eor_cols)), this_revision)

\* alembic downgrade, from this revision
Downgrade ==
    /\ revision = this_revision
    /\ Len(mig_log) < MaxMigrations
    /\ Migrated("downgrade", downgrade(Database(denorm_cols, eor_cols)), down_revision)

MigrationNext == Upgrade \/ Downgrade

MigrationSpec == MigrationInit /\ [][MigrationNext]_vars

(***************************************************************************)
(* Properties.                                                             *)
(***************************************************************************)
Rec == result.rec[1]

LeafDone == cls \in LeafClasses /\ pc = "done"

Partitions(c) == Range(PartitionNames(c))

Working(c, p) == Range(WorkingPartitions(c)[p])

\* The values requested for partition p by the keyword arguments kw: the
\* list passed, or the class's working list when none is passed.
Requested(c, kw, p) == IF p \in DOMAIN kw THEN Range(kw[p]) ELSE Working(c, p)

\* The same, with the one-element list ["all"] for the states of
\* EpaCemsSettings standing for every working state.
RequestedAll(c, kw, p) ==
    IF c = "EpaCemsSettings" /\ p = "states" /\ p \in DOMAIN kw /\ kw[p] = <<"all">>
    THEN Working(c, p)
    ELSE Requested(c, kw, p)

\* C1 as claimed: constructing a dataset-settings class always yields a
\* record, and each partition field of it is the intersection of the
\* requested values with the working partitions.
C1_AlwaysIntersection ==
    LeafDone =>
        /\ result.ok
        /\ \A p \in Partitions(cls) :
              Range(Rec[p]) = Requested(cls, kwargs, p) \cap Working(cls, p)

\* C1 amended: when constructing a dataset-settings class yields a record,
\* each partition field of it holds exactly the requested values (with
\* ["all"] standing for every working EPA CEMS state), all of which are in
\* the working partitions, so that it is their intersection with the working
\* partitions; a request with a value outside the working partitions yields
\* no record.
C1_IntersectionWhenValid ==
    LeafDone =>
        /\ result.ok =>
              \A p \in Partitions(cls) :
                 /\ Range(Rec[p]) = RequestedAll(cls, kwargs, p) \cap Working(cls, p)
                 /\ Range(Rec[p]) = RequestedAll(cls, kwargs, p)
        /\ (\E p \in Partitions(cls) :
               ~ RequestedAll(cls, kwargs, p) \subseteq Working(cls, p))
              => ~ result.ok

C1_Witness ==
    /\ LeafDone
    /\ result.ok
    /\ "years" \in DOMAIN kwargs
    /\ kwargs.years = <<2019, 2002>>
    /\ "tables" \in DOMAIN kwargs
    /\ Len(kwargs.tables) = 2

\* C2: EpaCemsSettings with states = ["all"] and a valid years selection
\* yields a record whose states are the full working list of states.
C2_AllStates ==
    (/\ cls = "EpaCemsSettings"
     /\ pc = "done"
     /\ "states" \in DOMAIN kwargs
     /\ kwargs.states = <<"all">>
     /\ Requested(cls, kwargs, "years") \subseteq Range(EpaCemsYears))
    => /\ result.ok
       /\ Rec.states = Sorted("states", Range(EPACEMS_STATES))
       /\ Range(Rec.years) = Requested(cls, kwargs, "years")

C2_Witness ==
    /\ cls = "EpaCemsSettings"
    /\ pc = "done"
    /\ "states" \in DOMAIN kwargs
    /\ kwargs.states = <<"all">>
    /\ "years" \in DOMAIN kwargs
    /\ kwargs.years = <<2020, 2002>>
    /\ result.ok
    /\ Len(Rec.states) = Cardinality(Range(EPACEMS_STATES))

\* A DatasetsSettings call that requests no dataset: every value passed is
\* None or an empty dict.
NothingRequested == \A k \in DOMAIN kwargs : ~ Truthy(kwargs[k])

\* C3: DatasetsSettings with no datasets requested yields a record with ferc1
\* set to all its working years and tables, eia set with eia860 and eia923
\* both populated, and epacems not set.
C3_DefaultsLoadAll ==
    (cls = "DatasetsSettings" /\ pc = "done" /\ NothingRequested)
    => /\ result.ok
       /\ Rec.ferc1 = Some([years |-> Ferc1Years,
                            tables |-> Ferc1WorkingPartitions.tables])
       /\ Rec.eia # NoneV
       /\ Rec.eia[1].eia860 # NoneV
       /\ Rec.eia[1].eia923 # NoneV
       /\ Rec.epacems = NoneV

\* Whether the value passed for a model field (if any) requests the model.
IsRequested(kw, name) == name \in DOMAIN kw /\ kw[name].tag = "dict"

\* C4: EiaSettings with a valid eia860 selection and no eia923 selection
\* succeeds, and its eia923 has exactly the tables boiler_fuel_eia923 and
\* generation_eia923 and the years requested for eia860.
C4_Eia860PopulatesEia923 ==
    (/\ cls = "EiaSettings"
     /\ pc = "done"
     /\ IsRequested(kwargs, "eia860")
     /\ ~ IsRequested(kwargs, "eia923")
     /\ \A p \in {"years", "tables"} :
           Requested("Eia860Settings", kwargs.eia860.v, p)
               \subseteq Working("Eia860Settings", p))
    => /\ result.ok
       /\ Rec.eia923 # NoneV
       /\ Rec.eia923[1].tables = <<"boiler_fuel_eia923", "generation_eia923">>
       /\ Rec.eia923[1].years = Rec.eia860[1].years
       /\ Range(Rec.eia923[1].years)
             = Requested("Eia860Settings", kwargs.eia860.v, "years")

C4_Witness ==
    /\ cls = "EiaSettings"
    /\ pc = "done"
    /\ kwargs = [eia860 |-> PyDict([years |-> <<2019>>])]
    /\ result.ok
    /\ Rec.eia923[1].years = <<2019>>

\* The tables had neither new column before the migration.
FreshTables ==
    /\ start_cols.denorm \cap {"ferc_account", "row_type_xbrl"} = {}
    /\ start_cols.eor \cap {"ferc_account", "row_type_xbrl"} = {}

\* The last two commands were an upgrade and then a downgrade.
RoundTrip ==
    /\ Len(mig_log) >= 2
    /\ mig_log[Len(mig_log) - 1].cmd = "upgrade"
    /\ mig_log[Len(mig_log)].cmd = "downgrade"

\* C5: on tables that hold neither new column, upgrade goes through and adds
\* both, and upgrade followed by downgrade leaves the column sets of both
\* tables as they were.
C5_UpgradeDowngrade ==
    FreshTables =>
        /\ \A i \in DOMAIN mig_log : ~ mig_log[i].raised
        /\ revision = this_revision =>
              /\ denorm_cols = start_cols.denorm \cup {"ferc_account", "row_type_xbrl"}
              /\ eor_cols = start_cols.eor \cup {"ferc_account", "row_type_xbrl"}
        /\ RoundTrip =>
              /\ denorm_cols = start_cols.denorm
              /\ eor_cols = start_cols.eor

C5_Witness ==
    /\ FreshTables
    /\ RoundTrip
    /\ start_cols.denorm = {"utility_id_ferc1", "report_year", "dollar_value"}
    /\ start_cols.eor = {"utility_id_ferc1", "report_year"}
    /\ revision = down_revision

\* The partitions for which the call requests a value outside the working
\* partitions, ["all"] counting as the value "all".
Unavailable(c, kw) ==
    {p \in Partitions(c) : ~ Requested(c, kw, p) \subseteq Working(c, p)}

\* The same, with ["all"] standing for every working EPA CEMS state.
UnavailableAll(c, kw) ==
    {p \in Partitions(c) : ~ RequestedAll(c, kw, p) \subseteq Working(c, p)}

\* C6 as claimed: a requested value outside the working partitions makes the
\* construction fail without a record, with an error that names the invalid
\* field and gives the allowed values of that field.
C6_ErrorNamesAllowed ==
    (LeafDone /\ Unavailable(cls, kwargs) # {})
    => /\ ~ result.ok
       /\ result.rec = NoneV
       /\ \E i \in DOMAIN result.errors :
             /\ result.errors[i].field \in Unavailable(cls, kwargs)
             /\ result.errors[i].allowed
                   = Some(Working(cls, result.errors[i].field))

\* C6 amended: a requested value outside the working partitions (["all"] for
\* the EPA CEMS states aside) makes the construction fail without a record;
\* the error names the first partition, in the order of the class's
\* working_partitions, with unavailable values and lists those values, not
\* the allowed ones.  Only the error for a refyear outside the FERC 1
\* working years lists the allowed values.
C6_ErrorNamesField ==
    LeafDone =>
        /\ UnavailableAll(cls, kwargs) # {} =>
              /\ ~ result.ok
              /\ result.rec = NoneV
              /\ LET e == result.errors[Len(result.errors)]
                     first == IF PartitionNames(cls)[1] \in UnavailableAll(cls, kwargs)
                              THEN PartitionNames(cls)[1]
                              ELSE PartitionNames(cls)[2]
                 IN  /\ e.field = first
                     /\ e.bad = RequestedAll(cls, kwargs, first) \ Working(cls, first)
                     /\ e.allowed = NoneV
        /\ (/\ cls = "Ferc1ToSqliteSettings"
            /\ "refyear" \in DOMAIN kwargs
            /\ kwargs.refyear \notin Range(Ferc1Years)) =>
              /\ ~ result.ok
              /\ result.rec = NoneV
              /\ result.errors[1] = Error("refyear", "refyear", {kwargs.refyear},
                                          Some(Range(Ferc1Years)))

C6_Witness ==
    /\ LeafDone
    /\ cls = "Ferc1ToSqliteSettings"
    /\ "refyear" \in DOMAIN kwargs
    /\ kwargs.refyear = 2020
    /\ UnavailableAll(cls, kwargs) = {"tables", "years"}
    /\ Len(result.errors) = 2

\* C7: once a record is constructed, every assignment to one of its fields
\* or to an undeclared name is rejected, and the outcome of the construction
\* never changes.
C7_Immutable ==
    [][pc = "done" =>
          /\ result' = result
          /\ attempt' \in {"TypeError", "ValueError"}]_vars

C7_Witness ==
    /\ pc = "done"
    /\ result.ok
    /\ attempt = "TypeError"
    /\ cls = "DatasetsSettings"

\* C8: after a successful EiaSettings construction that requested eia860 or
\* eia923, both are set; requesting eia923 alone yields an eia860 with the
\* years of eia923 and all the eia860 working tables, and a dataset that
\* was populated for the other covers the other's years.
C8_BothEiaDatasets ==
    (/\ cls = "EiaSettings"
     /\ pc = "done"
     /\ result.ok
     /\ (IsRequested(kwargs, "eia860") \/ IsRequested(kwargs, "eia923")))
    => /\ Rec.eia860 # NoneV
       /\ Rec.eia923 # NoneV
       /\ ~ (IsRequested(kwargs, "eia860") /\ IsRequested(kwargs, "eia923"))
             => Rec.eia860[1].years = Rec.eia923[1].years
       /\ ~ IsRequested(kwargs, "eia860") =>
             /\ Range(Rec.eia860[1].years)
                   = Requested("Eia923Settings", kwargs.eia923.v, "years")
             /\ Rec.eia860[1].tables = Eia860WorkingPartitions.tables
             /\ Rec.eia860[1].eia860m = FALSE

C8_Witness ==
    /\ cls = "EiaSettings"
    /\ pc = "done"
    /\ result.ok
    /\ kwargs = [eia923 |-> PyDict([years |-> <<2019>>,
                                    tables |-> <<"coalmine_eia923">>])]
    /\ Rec.eia860[1].years = <<2019>>

\* C9: a validated DatasetsSettings record with ferc1 and eia both set has
\* glue set to GlueSettings(eia = true, ferc1 = true), whatever was passed
\* for glue, and so has the record of a call that requested nothing.
C9_GlueAdded ==
    (cls = "DatasetsSettings" /\ pc = "done" /\ result.ok)
    => /\ (Rec.ferc1 # NoneV /\ Rec.eia # NoneV)
             => Rec.glue = Some([eia |-> TRUE, ferc1 |-> TRUE])
       /\ NothingRequested => Rec.glue = Some([eia |-> TRUE, ferc1 |-> TRUE])

C9_Witness ==
    /\ cls = "DatasetsSettings"
    /\ pc = "done"
    /\ result.ok
    /\ "glue" \in DOMAIN kwargs
    /\ kwargs.glue = PyDict([eia |-> FALSE])
    /\ IsRequested(kwargs, "ferc1")
    /\ IsRequested(kwargs, "eia")
    /\ Rec.glue = Some([eia |-> TRUE, ferc1 |-> TRUE])

\* s is in strictly ascending order (so it holds no value twice).
Ascending(p, s) ==
    \A i \in DOMAIN s : \A j \in DOMAIN s : i < j => Key(p, s[i]) < Key(p, s[j])

\* The lists, no longer than the requests the model draws, holding the
\* values of list s in any order and any number of times.
Rearranged(s) == {t \in SeqsUpTo(Range(s), MaxLen) : Range(t) = Range(s)}

\* The keyword arguments that differ from kw only by the order and the
\* multiplicity of the values of the partitions.
SameRequests(c, kw) ==
    {Merge(kw, Merge(a, b)) :
        a \in IF PartitionNames(c)[1] \in DOMAIN kw
              THEN {Single(PartitionNames(c)[1], t) :
                       t \in Rearranged(kw[PartitionNames(c)[1]])}
              ELSE {EmptyDict},
        b \in IF PartitionNames(c)[2] \in DOMAIN kw
              THEN {Single(PartitionNames(c)[2], t) :
                       t \in Rearranged(kw[PartitionNames(c)[2]])}
              ELSE {EmptyDict}}

\* Whether the call passes the keyword list ["all"] for the EPA CEMS states.
PassesAll(c, kw) ==
    c = "EpaCemsSettings" /\ "states" \in DOMAIN kw /\ kw.states = <<"all">>

\* Every validated record has its partitions in strictly ascending order
\* and within the working partitions, and validating its field values again
\* yields the same record.
Normalised ==
    result.ok =>
        /\ \A p \in Partitions(cls) :
              /\ Ascending(p, Rec[p])
              /\ Range(Rec[p]) \subseteq Working(cls, p)
        /\ ConstructLeaf(cls, Rec) = result

\* C10 as claimed: validated records are normalised, and the outcome of a
\* construction depends only on the sets of values requested.
C10_OnlyTheSets ==
    LeafDone =>
        /\ Normalised
        /\ \A kw \in SameRequests(cls, kwargs) : ConstructLeaf(cls, kw) = result

\* C10 amended: validated records are normalised, and the outcome of a
\* construction depends only on the sets of values requested, except for
\* EPA CEMS states holding "all": the one-element list ["all"] is expanded
\* to every working state, and any other list holding "all" is rejected.
C10_OnlyTheSetsButAll ==
    LeafDone =>
        /\ Normalised
        /\ \A kw \in SameRequests(cls, kwargs) :
              PassesAll(cls, kw) = PassesAll(cls, kwargs)
                 => ConstructLeaf(cls, kw) = result
        /\ \A kw \in SameRequests(cls, kwargs) :
              (PassesAll(cls, kwargs) /\ ~ PassesAll(cls, kw))
                 => ~ ConstructLeaf(cls, kw).ok

C10_Witness ==
    /\ LeafDone
    /\ result.ok
    /\ cls = "EpaCemsSettings"
    /\ "states" \in DOMAIN kwargs
    /\ kwargs.states = <<"CO", "AL">>
    /\ Rec.states = <<"AL", "CO">>
    /\ "years" \in DOMAIN kwargs
    /\ kwargs.years = <<2020, 2020>>
    /\ Rec.years = <<2020>>

====
